---- MODULE Spec2Model ----
(***************************************************************************)
(* A model of psychonaut-station/api: the BYOND topic client               *)
(* (byond.Topic), the time-gated response cache (CachedResponse) and the   *)
(* v1 request handlers that use them (StatusCb, PlayerLeaderboardCb).      *)
(*                                                                         *)
(* Bytes are integers 0..255 and Go strings / []byte are sequences of      *)
(* bytes.  Times are whole seconds.                                        *)
(***************************************************************************)
EXTENDS Integers, Sequences, FiniteSets, TLC

(***************************************************************************)
(* Byte-string helpers                                                     *)
(***************************************************************************)

\* n zero bytes: make([]byte, n)
Zeros(n) == [i \in 1..n |-> 0]

\* n copies of the byte b
Fill(n, b) == [i \in 1..n |-> b]

Min(a, b) == IF a <= b THEN a ELSE b

\* strings.IndexByte: position of the first c in s, 0 when absent
IndexByte(s, c) ==
    LET I == {i \in 1..Len(s) : s[i] = c}
    IN  IF I = {} THEN 0 ELSE CHOOSE i \in I : \A j \in I : i <= j

\* strings.Cut(s, sep) for a one-byte separator
CutBefore(s, c) == IF IndexByte(s, c) = 0 THEN s ELSE SubSeq(s, 1, IndexByte(s, c) - 1)
CutAfter(s, c) == IF IndexByte(s, c) = 0 THEN <<>> ELSE SubSeq(s, IndexByte(s, c) + 1, Len(s))

IsDigit(c) == c >= 48 /\ c <= 57
IsHex(c) == IsDigit(c) \/ (c >= 97 /\ c <= 102) \/ (c >= 65 /\ c <= 70)
UnHex(c) == IF IsDigit(c) THEN c - 48 ELSE IF c >= 97 THEN c - 97 + 10 ELSE c - 65 + 10

(***************************************************************************)
(* package byond: Topic                                                    *)
(***************************************************************************)

TopicTypeNull == 0
TopicTypeNumber == 42
TopicTypeString == 6

BYOND_PACKET_HEADER_SIZE == 4

\* Go's string(int) conversion: the UTF-8 encoding of the code point, and
\* U+FFFD (EF BF BD) for surrogates and values outside the Unicode range.
RuneString(r) ==
    IF r < 0 \/ r > 1114111 \/ (r >= 55296 /\ r <= 57343) THEN <<239, 191, 189>>
    ELSE IF r < 128 THEN <<r>>
    ELSE IF r < 2048 THEN <<192 + (r \div 64), 128 + (r % 64)>>
    ELSE IF r < 65536 THEN <<224 + (r \div 4096), 128 + ((r \div 64) % 64), 128 + (r % 64)>>
    ELSE <<240 + (r \div 262144), 128 + ((r \div 4096) % 64),
           128 + ((r \div 64) % 64), 128 + (r % 64)>>

\* The request frame Topic builds for the payload data.
PacketData(data) ==
    <<0, 131>> \o (<<0>> \o RuneString(Len(data) + 6)) \o <<0, 0, 0, 0, 0>> \o data \o <<0>>

\* binary.BigEndian.Uint16
Uint16(b) == b[1] * 256 + b[2]

\* A connection's inbound side is the sequence of deliveries (non-empty byte
\* chunks) still to be read; when it is empty the remote has either closed
\* (a read returns 0 bytes and io.EOF at once) or keeps the connection open
\* and silent.
\* conn.Read(buf) with len(buf) = n returns at most n bytes of the first
\* delivery; what it does not take stays queued.
ReadCount(chunks, n) == IF chunks = <<>> \/ n = 0 THEN 0 ELSE Min(n, Len(chunks[1]))

ReadBytes(chunks, n) == IF ReadCount(chunks, n) = 0 THEN <<>> ELSE SubSeq(chunks[1], 1, ReadCount(chunks, n))

ReadRest(chunks, n) ==
    IF ReadCount(chunks, n) = 0 THEN chunks
    ELSE IF ReadCount(chunks, n) = Len(chunks[1]) THEN Tail(chunks)
    ELSE <<SubSeq(chunks[1], ReadCount(chunks, n) + 1, Len(chunks[1]))>> \o Tail(chunks)

\* The buffer after conn.Read: the bytes read, then the zeros make() left.
ReadInto(chunks, n) == ReadBytes(chunks, n) \o Zeros(n - ReadCount(chunks, n))

\* Lines 94-103: the tag and payload Topic returns for a body buffer.
Classify(responseData) ==
    LET responseDataType == IF Len(responseData) > 2 THEN responseData[1] ELSE TopicTypeNull
    IN  IF responseDataType = TopicTypeNull
        THEN [err |-> "nil", dataType |-> responseDataType, data |-> <<>>]
        ELSE [err |-> "nil", dataType |-> responseDataType, data |-> Tail(responseData)]

\* conn.Read(buf) with len(buf) = n on a connection that has no deadline
\* (Topic sets none): with nothing queued and the remote neither closing
\* nor sending, the call does not return.  A read into an empty buffer
\* returns at once.
ReadBlocks(chunks, closes, n) == n > 0 /\ chunks = <<>> /\ ~closes

\* The result of DialTimeout failing.
DialFailure == [err |-> "dial", dataType |-> TopicTypeNull, data |-> <<>>]

\* One whole call of Topic against a remote that is reachable or not and
\* delivers its response in the given chunks.
Topic(dialOK, chunks) ==
    IF ~dialOK THEN DialFailure
    ELSE LET responseHeaderData == ReadInto(chunks, BYOND_PACKET_HEADER_SIZE)
             afterHeader == ReadRest(chunks, BYOND_PACKET_HEADER_SIZE)
             DataSize == Uint16(SubSeq(responseHeaderData, 3, 4))
         IN  Classify(ReadInto(afterHeader, DataSize))

\* Whether a call of Topic against that remote never returns: one of its
\* two reads (lines 89 and 92) blocks.
TopicBlocks(dialOK, chunks, closes) ==
    /\ dialOK
    /\ LET responseHeaderData == ReadInto(chunks, BYOND_PACKET_HEADER_SIZE)
           afterHeader == ReadRest(chunks, BYOND_PACKET_HEADER_SIZE)
           DataSize == Uint16(SubSeq(responseHeaderData, 3, 4))
       IN  \/ ReadBlocks(chunks, closes, BYOND_PACKET_HEADER_SIZE)
           \/ ReadBlocks(afterHeader, closes, DataSize)

(***************************************************************************)
(* net/url and strconv, as used by StatusCb                                *)
(***************************************************************************)

\* url.QueryUnescape fails on a '%' that is not followed by two hex digits.
ValidEscape(s) ==
    \A i \in 1..Len(s) : s[i] = 37 => (i + 2 <= Len(s) /\ IsHex(s[i + 1]) /\ IsHex(s[i + 2]))

RECURSIVE QueryUnescape(_)
QueryUnescape(s) ==
    IF s = <<>> THEN <<>>
    ELSE IF s[1] = 43 THEN <<32>> \o QueryUnescape(Tail(s))
    ELSE IF s[1] = 37 THEN <<UnHex(s[2]) * 16 + UnHex(s[3])>> \o QueryUnescape(SubSeq(s, 4, Len(s)))
    ELSE <<s[1]>> \o QueryUnescape(Tail(s))

\* url.ParseQuery: the key/value pairs in order of appearance.  Pairs cut
\* at '&'; an empty piece, a piece holding ';' and a piece with a bad
\* escape are dropped (the error is discarded by the caller).
RECURSIVE ParseQuery(_)
ParseQuery(query) ==
    IF query = <<>> THEN <<>>
    ELSE LET piece == CutBefore(query, 38)
             rest == CutAfter(query, 38)
             k == CutBefore(piece, 61)
             v == CutAfter(piece, 61)
         IN  IF piece = <<>> \/ IndexByte(piece, 59) # 0 \/ ~ValidEscape(k) \/ ~ValidEscape(v)
             THEN ParseQuery(rest)
             ELSE <<[key |-> QueryUnescape(k), value |-> QueryUnescape(v)]>> \o ParseQuery(rest)

\* url.Values.Get: the first value stored under key, "" when there is none.
Get(u, key) ==
    LET I == {i \in 1..Len(u) : u[i].key = key}
    IN  IF I = {} THEN <<>> ELSE u[CHOOSE i \in I : \A j \in I : i <= j].value

\* A decimal digit string modulo 2^32, as the pair <<high 16 bits, low 16 bits>>.
RECURSIVE DecU32(_)
DecU32(d) ==
    IF d = <<>> THEN <<0, 0>>
    ELSE LET p == DecU32(SubSeq(d, 1, Len(d) - 1))
             lo == p[2] * 10 + (d[Len(d)] - 48)
             hi == p[1] * 10 + (lo \div 65536)
         IN  <<hi % 65536, lo % 65536>>

\* Two's complement negation of a 32-bit pair.
NegU32(p) == <<(65535 - p[1] + (IF p[2] = 0 THEN 1 ELSE 0)) % 65536, (65536 - p[2]) % 65536>>

\* The int32 a 32-bit pattern stands for.
ToInt32(p) == IF p[1] >= 32768 THEN (p[1] - 65536) * 65536 + p[2] ELSE p[1] * 65536 + p[2]

RECURSIVE StripZeros(_)
StripZeros(d) == IF d # <<>> /\ d[1] = 48 THEN StripZeros(Tail(d)) ELSE d

LexGreater(a, b) == \E i \in 1..Len(a) : a[i] > b[i] /\ \A j \in 1..(i - 1) : a[j] = b[j]

\* "9223372036854775808", the magnitude 2^63
Pow63Digits == <<57, 50, 50, 51, 51, 55, 50, 48, 51, 54, 56, 53, 52, 55, 55, 53, 56, 48, 56>>

\* magnitude >= 2^63 and magnitude > 2^63, for a digit string
AtLeastPow63(d) ==
    LET m == StripZeros(d)
    IN  Len(m) > 19 \/ (Len(m) = 19 /\ (m = Pow63Digits \/ LexGreater(m, Pow63Digits)))
AbovePow63(d) ==
    LET m == StripZeros(d)
    IN  Len(m) > 19 \/ (Len(m) = 19 /\ LexGreater(m, Pow63Digits))

\* int32(val) for val, _ := strconv.Atoi(s) on a 64-bit build: 0 on a
\* syntax error; on a range error Atoi still returns the clamped int64
\* (MaxInt64 truncates to -1, MinInt64 to 0); otherwise the low 32 bits.
AtoiInt32(s) ==
    LET neg == s # <<>> /\ s[1] = 45
        signed == s # <<>> /\ (s[1] = 45 \/ s[1] = 43)
        d == IF signed THEN Tail(s) ELSE s
    IN  IF d = <<>> \/ \E i \in 1..Len(d) : ~IsDigit(d[i]) THEN 0
        ELSE IF ~neg /\ AtLeastPow63(d) THEN -1
        ELSE IF neg /\ AbovePow63(d) THEN 0
        ELSE IF neg THEN ToInt32(NegU32(DecU32(d)))
        ELSE ToInt32(DecU32(d))

url_to_int(u, v) == AtoiInt32(Get(u, v))

\* float32(val) for val, _ := strconv.ParseFloat(s, 32), in thousandths,
\* for plain decimals [sign] digits [ '.' digits ] with at most six integer
\* and three fraction digits, the only numbers the payloads of this model
\* hold; any other text they hold is a syntax error, 0.
ParseFloatMilli(s) ==
    LET neg == s # <<>> /\ s[1] = 45
        signed == s # <<>> /\ (s[1] = 45 \/ s[1] = 43)
        d == IF signed THEN Tail(s) ELSE s
        ip == CutBefore(d, 46)
        fp == CutAfter(d, 46)
        fp3 == fp \o Fill(3 - Len(fp), 48)
        digitsOnly == \A i \in 1..Len(ip) : IsDigit(ip[i])
        fracOnly == \A i \in 1..Len(fp) : IsDigit(fp[i])
    IN  IF (ip = <<>> /\ fp = <<>>) \/ ~digitsOnly \/ ~fracOnly \/ Len(fp) > 3 \/ Len(ip) > 6 THEN 0
        ELSE (IF neg THEN -1 ELSE 1) * ToInt32(DecU32(ip \o fp3))

url_to_f32(u, v) == ParseFloatMilli(Get(u, v))

\* The keys of the status topic
K_round_id == <<114, 111, 117, 110, 100, 95, 105, 100>>
K_hub == <<104, 117, 98>>
K_players == <<112, 108, 97, 121, 101, 114, 115>>
K_admins == <<97, 100, 109, 105, 110, 115>>
K_map_name == <<109, 97, 112, 95, 110, 97, 109, 101>>
K_security_level == <<115, 101, 99, 117, 114, 105, 116, 121, 95, 108, 101, 118, 101, 108>>
K_round_duration == <<114, 111, 117, 110, 100, 95, 100, 117, 114, 97, 116, 105, 111, 110>>
K_gamestate == <<103, 97, 109, 101, 115, 116, 97, 116, 101>>
K_time_dilation_current == <<116, 105, 109, 101, 95, 100, 105, 108, 97, 116, 105, 111, 110, 95, 99, 117, 114, 114, 101, 110, 116>>
K_time_dilation_avg == <<116, 105, 109, 101, 95, 100, 105, 108, 97, 116, 105, 111, 110, 95, 97, 118, 103>>
K_time_dilation_avg_slow == <<116, 105, 109, 101, 95, 100, 105, 108, 97, 116, 105, 111, 110, 95, 97, 118, 103, 95, 115, 108, 111, 119>>
K_time_dilation_avg_fast == <<116, 105, 109, 101, 95, 100, 105, 108, 97, 116, 105, 111, 110, 95, 97, 118, 103, 95, 102, 97, 115, 116>>
K_shuttle_mode == <<115, 104, 117, 116, 116, 108, 101, 95, 109, 111, 100, 101>>
K_shuttle_time == <<115, 104, 117, 116, 116, 108, 101, 95, 116, 105, 109, 101>>

(***************************************************************************)
(* package api: the status record StatusCb builds for one server           *)
(***************************************************************************)

\* Lines 63-67: ServerStatus{} with the base server info.
BaseStatus(server) ==
    [Name |-> server.Name, ServerStatus |-> 0, ErrorMessage |-> server.ErrorMessage,
     RoundID |-> 0, Hub |-> FALSE, Players |-> 0, Admins |-> 0, Map |-> <<>>,
     SecurityLevel |-> <<>>, RoundDuration |-> 0, GameState |-> 0, TimeDilation |-> 0,
     TimeDilationAvg |-> 0, TimeDilationSlow |-> 0, TimeDilationFast |-> 0,
     ShuttleMode |-> <<>>, ShuttleTime |-> 0, ConnectionInfo |-> server.ConnectionAddress]

\* Lines 75-91: the online server info decoded from the payload.
OnlineStatus(server, data) ==
    LET u == ParseQuery(data)
    IN  [BaseStatus(server) EXCEPT
            !.ServerStatus = 1,
            !.RoundID = url_to_int(u, K_round_id),
            !.Hub = (url_to_int(u, K_hub) = 1),
            !.Players = url_to_int(u, K_players),
            !.Admins = url_to_int(u, K_admins),
            !.Map = Get(u, K_map_name),
            !.SecurityLevel = Get(u, K_security_level),
            !.RoundDuration = url_to_int(u, K_round_duration),
            !.GameState = url_to_int(u, K_gamestate),
            !.TimeDilation = url_to_f32(u, K_time_dilation_current),
            !.TimeDilationAvg = url_to_f32(u, K_time_dilation_avg),
            !.TimeDilationSlow = url_to_f32(u, K_time_dilation_avg_slow),
            !.TimeDilationFast = url_to_f32(u, K_time_dilation_avg_fast),
            !.ShuttleMode = Get(u, K_shuttle_mode),
            !.ShuttleTime = url_to_int(u, K_shuttle_time)]

\* StatusRecord without the test of the tag: any reply that is not an error
\* is decoded.
StatusRecord_ignoreTag(server, res) ==
    IF res.err # "nil"
    THEN BaseStatus(server)
    ELSE OnlineStatus(server, res.data)

\* Lines 60-93: the record appended for a server, given what Topic returned.
StatusRecord(server, res) ==
    IF res.err # "nil" \/ res.dataType # TopicTypeString
    THEN BaseStatus(server)
    ELSE OnlineStatus(server, res.data)

(***************************************************************************)
(* Response envelopes                                                      *)
(***************************************************************************)

ResponseFail == 0
ResponseSuccess == 1
ResponseDenied == 2
ResponseBadAuth == 3

\* What WriteHeaderResponseCustom encodes onto the response writer.
WriteHeaderResponseCustom(status, reason, body) ==
    <<[Status |-> status, Reason |-> reason, Body |-> body]>>

\* The envelopes one call of WriteHeaderResponse writes (the switch has no
\* default branch).  The int body 0 of the non-success envelopes is <<0>>.
WriteHeaderResponse(status, body) ==
    IF status = ResponseFail THEN WriteHeaderResponseCustom(status, "fail", <<0>>)
    ELSE IF status = ResponseSuccess THEN WriteHeaderResponseCustom(status, "success", body)
    ELSE IF status = ResponseDenied THEN WriteHeaderResponseCustom(status, "denied", <<0>>)
    ELSE IF status = ResponseBadAuth THEN WriteHeaderResponseCustom(status, "bad auth", <<0>>)
    ELSE <<>>

(***************************************************************************)
(* Configuration and the world outside the process                         *)
(***************************************************************************)

\* config.GetConfig().Servers: the configured servers, in order.
Servers ==
    <<[Name |-> "Alpha", Address |-> "10.0.0.1:3131", ConnectionAddress |-> "alpha.example:3131",
       ErrorMessage |-> "Alpha is down"],
      [Name |-> "Beta", Address |-> "10.0.0.2:3131", ConnectionAddress |-> "beta.example:3131",
       ErrorMessage |-> "Beta is down"]>>

NumServers == Len(Servers)

\* A response frame of the remote: type 0x0083, big-endian size, body.
Frame(body) == <<0, 131, Len(body) \div 256, Len(body) % 256>> \o body

\* "round_id=5&players=10&map_name=Box"
StatusPayload ==
    <<114, 111, 117, 110, 100, 95, 105, 100, 61, 53, 38, 112, 108, 97, 121, 101, 114, 115, 61, 49,
      48, 38, 109, 97, 112, 95, 110, 97, 109, 101, 61, 66, 111, 120>>

StringFrame == Frame(<<TopicTypeString>> \o StatusPayload)
NumberFrame == Frame(<<TopicTypeNumber, 0, 0, 128, 63>>)
NullFrame == Frame(<<TopicTypeNull>>)

\* The ways a remote game server behaves towards one Topic call: whether
\* it accepts the connection, the deliveries it makes, and whether it
\* closes after them or stays silent with the connection open.
Remotes ==
    { [dialOK |-> FALSE, chunks |-> <<>>, closes |-> TRUE],
      [dialOK |-> TRUE, chunks |-> <<StringFrame>>, closes |-> TRUE],
      [dialOK |-> TRUE, chunks |-> <<NumberFrame>>, closes |-> TRUE],
      [dialOK |-> TRUE, chunks |-> <<NullFrame>>, closes |-> TRUE],
      [dialOK |-> TRUE, chunks |-> <<>>, closes |-> FALSE] }

\* "Living"
J_Living == <<76, 105, 118, 105, 110, 103>>

\* The rows of role_time for one job, as the query orders them.
LivingRows ==
    { <<>>,
      <<[ByondKey |-> "bob", Minutes |-> 120], [ByondKey |-> "ann", Minutes |-> 90]>> }

\* config.GetConfig().Secret as the deployment sets it
ConfiguredSecret == "hunter2"

\* The values Secret takes: a configured one, and the empty string of a
\* configuration file without a Secret key (LoadConfig checks nothing).
Secrets == {ConfiguredSecret, ""}

\* The token headers requests carry: none, the configured secret, another
\* value.
Tokens ==
    { [present |-> FALSE, value |-> ""],
      [present |-> TRUE, value |-> ConfiguredSecret],
      [present |-> TRUE, value |-> "letmein"] }

\* The query keys of the player endpoints: "id", "ckey", "job"
K_id == <<105, 100>>
K_ckey == <<99, 107, 101, 121>>
K_job == <<106, 111, 98>>

\* "Ann", "ann", "zed", "Doctor"
S_Ann == <<65, 110, 110>>
S_ann == <<97, 110, 110>>
S_zed == <<122, 101, 100>>
S_Doctor == <<68, 111, 99, 116, 111, 114>>

\* The query strings of requests to /v1/player: "", "ckey=Ann", "ckey=zed"
PlayerQueries == { <<>>, K_ckey \o <<61>> \o S_Ann, K_ckey \o <<61>> \o S_zed }

\* The query strings of requests to /v1/player/ban: "", "id=7", "id=x",
\* "ckey=Ann", "ckey=zed", "id=7&ckey=zed"
BanQueries ==
    { <<>>,
      K_id \o <<61, 55>>,
      K_id \o <<61, 120>>,
      K_ckey \o <<61>> \o S_Ann,
      K_ckey \o <<61>> \o S_zed,
      K_id \o <<61, 55, 38>> \o K_ckey \o <<61>> \o S_zed }

\* The query strings of requests to /v1/player/top that name a job:
\* "job=Doctor", "job=Living"
JobQueries == { K_job \o <<61>> \o S_Doctor, K_job \o <<61>> \o J_Living }

\* The contents of the player table at the moment of a lookup.
PlayerTables ==
    { {},
      { [Ckey |-> S_ann, ByondKey |-> S_Ann, IP |-> "192.0.2.7", CID |-> "3141592653"] } }

\* The contents of the ban table at the moment of a lookup.
BanTables ==
    { {},
      { [ID |-> 7, Role |-> "Server", Reason |-> "griefing", BannedKey |-> S_ann, AdminKey |-> S_zed],
        [ID |-> 9, Role |-> "Clown", Reason |-> "honking", BannedKey |-> S_ann, AdminKey |-> S_zed] } }

\* The zero values of db.Player and db.Ban (every field a nil pointer)
NoPlayer == [Ckey |-> <<>>, ByondKey |-> <<>>, IP |-> "", CID |-> ""]
NoBan == [ID |-> 0, Role |-> "", Reason |-> "", BannedKey |-> <<>>, AdminKey |-> <<>>]

(***************************************************************************)
(* Bounds of the model                                                     *)
(***************************************************************************)

\* concurrent request handlers
NumHandlers == 2
\* requests served in one behaviour
MaxRequests == 2
\* clock advances in one behaviour
MaxTicks == 2
\* the process starts this many seconds after the zero time.Time
StartTime == 10000
\* the largest time.Duration (time.Since saturates at it), scaled
MaxDuration == 9000

Handlers == 1..NumHandlers

\* seconds the clock advances by in one step
TickSteps == {5, 3600}

(***************************************************************************)
(* package api: CachedResponse                                             *)
(***************************************************************************)

\* time.Time{}
ZeroTime == 0

\* no time yet (history only)
NoTime == ZeroTime - 1

\* serverResponseW.Init(5 * time.Second), playTimeLeaderboardW.Init(1 * time.Hour)
StatusCooldown == 5
LeaderboardCooldown == 3600

VARIABLES
    now,                    \* the wall clock, in seconds
    serverResponseW,        \* CachedResponse[[]ServerStatus]
    playTimeLeaderboardW,   \* CachedResponse[[]db.RoleTime]
    pc,                     \* where each handler is
    loc,                    \* each handler's local variables
    w,                      \* what each handler has written to its ResponseWriter
    hist,                   \* history: what each handler's refresh did
    lastStart,              \* history: when each cache's latest recomputation started
    lastComplete,           \* history: each cache's value after its last finished refresh
    budget                  \* requests, ticks and changes so far

cacheVars == <<now, serverResponseW, playTimeLeaderboardW, pc, loc, w, hist, lastStart,
               lastComplete, budget>>

\* One call of byond.Topic, step by step
VARIABLES
    tpc,                    \* where the call is
    input,                  \* the payload, and how the remote behaves
    conn,                   \* the connection: opened or not, deliveries still unread
    packetData,             \* the request frame
    written,                \* the bytes written to the connection
    responseHeaderData,     \* the header buffer
    responseData,           \* the body buffer
    nread,                  \* history: the byte counts the two reads returned
    result                  \* what Topic returned

topicVars == <<tpc, input, conn, packetData, written, responseHeaderData, responseData, nread, result>>

\* The configuration and the requests being served
VARIABLES
    secret,                 \* config.GetConfig().Secret
    request                 \* the *http.Request each handler serves

reqVars == <<secret, request>>

vars == <<cacheVars, topicVars, reqVars>>

\* time.Since(t): the elapsed time, saturating at the largest Duration
Since(t) == Min(now - t, MaxDuration)

\* ShouldRefreshResponse with a strict comparison
ShouldRefreshResponse_strict(response) == Since(response.LastAccess) > response.Cooldown

ShouldRefreshResponse(response) == Since(response.LastAccess) >= response.Cooldown

\* (*CachedResponse).Init
CachedResponseInit(cooldown) == [Cooldown |-> cooldown, LastAccess |-> ZeroTime, Var |-> <<>>]

NoStatus == [Name |-> "none"]
NoResult == [err |-> "none", dataType |-> TopicTypeNull, data |-> <<>>]
NoLocals == [op |-> "none", idx |-> 0, status |-> NoStatus, res |-> NoResult, slice |-> <<>>, data |-> <<>>]
NoHist == [refreshed |-> FALSE, overlapped |-> FALSE, built |-> <<>>, calls |-> <<>>]

\* A request: the token header (present or not, and its value) and the raw
\* query string.
NoToken == [present |-> FALSE, value |-> ""]
NoRequest == [token |-> NoToken, query |-> <<>>]

\* A database or Topic call, for the history: the function, and the server
\* address, key or id passed.
Call(fn, server, key, id) == [fn |-> fn, server |-> server, key |-> key, id |-> id]

\* InitV1, at process start
CacheInit ==
    /\ now = StartTime
    /\ serverResponseW = CachedResponseInit(StatusCooldown)
    /\ playTimeLeaderboardW = CachedResponseInit(LeaderboardCooldown)
    /\ pc = [h \in Handlers |-> "idle"]
    /\ loc = [h \in Handlers |-> NoLocals]
    /\ w = [h \in Handlers |-> <<>>]
    /\ hist = [h \in Handlers |-> NoHist]
    /\ lastStart = [c \in {"status", "top"} |-> NoTime]
    /\ lastComplete = [c \in {"status", "top"} |-> <<>>]
    /\ budget = [requests |-> 0, ticks |-> 0]

(***************************************************************************)
(* The request handlers.  Every request runs on its own goroutine; the     *)
(* caches are package-level variables the handlers share without a lock,  *)
(* so each access to a cache field is a step of its own.                  *)
(***************************************************************************)

\* Handler h is between finding a cache stale and finishing its recompute.
InRefresh(h, op) ==
    /\ loc[h].op = op
    /\ pc[h] \in {"s_stamp", "s_clear", "s_topic", "s_append",
                  "l_stamp", "l_clear", "l_query", "l_read", "l_append"}

\* The history of the handlers when h enters op and finds the cache stale or not.
EnterHist(h, op, stale) ==
    [g \in Handlers |->
        IF g = h
        THEN [NoHist EXCEPT !.refreshed = stale,
                            !.overlapped = stale /\ \E q \in Handlers \ {h} : InRefresh(q, op)]
        ELSE IF stale /\ InRefresh(g, op) THEN [hist[g] EXCEPT !.overlapped = TRUE]
        ELSE hist[g]]

\* StatusCb, line 54: a request arrives and tests the cache.  The handler
\* reads neither the query nor the headers.
StatusCbEnter(h) ==
    /\ pc[h] \in {"idle", "done"}
    /\ budget.requests < MaxRequests
    /\ LET stale == ShouldRefreshResponse(serverResponseW)
       IN  /\ pc' = [pc EXCEPT ![h] = IF stale THEN "s_stamp" ELSE "s_write"]
           /\ hist' = EnterHist(h, "StatusCb", stale)
    /\ loc' = [loc EXCEPT ![h] = [NoLocals EXCEPT !.op = "StatusCb"]]
    /\ w' = [w EXCEPT ![h] = <<>>]
    /\ request' = [request EXCEPT ![h] = NoRequest]
    /\ budget' = [budget EXCEPT !.requests = @ + 1]
    /\ UNCHANGED <<now, serverResponseW, playTimeLeaderboardW, lastStart, lastComplete>>
    /\ UNCHANGED <<topicVars, secret>>

\* StatusCb without the assignment of line 55 at this place
StatusCbSetLastAccess_missing(h) ==
    /\ pc[h] = "s_stamp"
    /\ lastStart' = [lastStart EXCEPT !["status"] = now]
    /\ pc' = [pc EXCEPT ![h] = "s_clear"]
    /\ UNCHANGED <<now, serverResponseW, playTimeLeaderboardW, loc, w, hist, lastComplete, budget>>
    /\ UNCHANGED <<topicVars, reqVars>>

\* Line 55: serverResponseW.LastAccess = time.Now()
StatusCbSetLastAccess(h) ==
    /\ pc[h] = "s_stamp"
    /\ serverResponseW' = [serverResponseW EXCEPT !.LastAccess = now]
    /\ lastStart' = [lastStart EXCEPT !["status"] = now]
    /\ pc' = [pc EXCEPT ![h] = "s_clear"]
    /\ UNCHANGED <<now, playTimeLeaderboardW, loc, w, hist, lastComplete, budget>>
    /\ UNCHANGED <<topicVars, reqVars>>

\* Line 56: serverResponseW.Var = nil, and the loop begins.
StatusCbClearVar(h) ==
    /\ pc[h] = "s_clear"
    /\ serverResponseW' = [serverResponseW EXCEPT !.Var = <<>>]
    /\ loc' = [loc EXCEPT ![h].idx = 1]
    /\ pc' = [pc EXCEPT ![h] = IF NumServers = 0 THEN "s_write" ELSE "s_topic"]
    /\ lastComplete' = IF NumServers = 0 THEN [lastComplete EXCEPT !["status"] = <<>>] ELSE lastComplete
    /\ UNCHANGED <<now, playTimeLeaderboardW, w, hist, lastStart, budget>>
    /\ UNCHANGED <<topicVars, reqVars>>

\* Lines 60-93 up to the evaluation of append's argument: the Topic call
\* for server idx (the remote behaves in one of the ways of Remotes), the
\* record built from its result, and the read of serverResponseW.Var.
\* The step is taken when the call returns; against a remote that makes a
\* read block the handler stays here.
StatusCbTopic(h) ==
    /\ pc[h] = "s_topic"
    /\ \E r \in Remotes :
          LET server == Servers[loc[h].idx]
              res == Topic(r.dialOK, r.chunks)
          IN  /\ ~TopicBlocks(r.dialOK, r.chunks, r.closes)
              /\ loc' = [loc EXCEPT ![h].res = res,
                                    ![h].status = StatusRecord(server, res),
                                    ![h].slice = serverResponseW.Var]
              /\ hist' = [hist EXCEPT ![h].calls = Append(@, Call("Topic", server.Address, <<>>, 0))]
    /\ pc' = [pc EXCEPT ![h] = "s_append"]
    /\ UNCHANGED <<now, serverResponseW, playTimeLeaderboardW, w, lastStart, lastComplete, budget>>
    /\ UNCHANGED <<topicVars, reqVars>>

\* StatusCb whose offline branch continues without appending
StatusCbAppend_skipOffline(h) ==
    /\ pc[h] = "s_append"
    /\ serverResponseW' = [serverResponseW EXCEPT
            !.Var = IF loc[h].status.ServerStatus = 0 THEN loc[h].slice
                    ELSE Append(loc[h].slice, loc[h].status)]
    /\ hist' = [hist EXCEPT ![h].built = Append(@, loc[h].status)]
    /\ loc' = [loc EXCEPT ![h].idx = @ + 1, ![h].slice = <<>>, ![h].status = NoStatus, ![h].res = NoResult]
    /\ pc' = [pc EXCEPT ![h] = IF loc[h].idx = NumServers THEN "s_write" ELSE "s_topic"]
    /\ lastComplete' = IF loc[h].idx = NumServers
                       THEN [lastComplete EXCEPT !["status"] = serverResponseW'.Var]
                       ELSE lastComplete
    /\ UNCHANGED <<now, playTimeLeaderboardW, w, lastStart, budget>>
    /\ UNCHANGED <<topicVars, reqVars>>

\* StatusCb that asks a server again when its call failed or was not
\* answered with a string
StatusCbAppend_retryOffline(h) ==
    /\ pc[h] = "s_append"
    /\ IF loc[h].status.ServerStatus = 0
       THEN /\ pc' = [pc EXCEPT ![h] = "s_topic"]
            /\ loc' = [loc EXCEPT ![h].slice = <<>>, ![h].status = NoStatus, ![h].res = NoResult]
            /\ UNCHANGED <<serverResponseW, hist, lastComplete>>
       ELSE /\ serverResponseW' = [serverResponseW EXCEPT !.Var = Append(loc[h].slice, loc[h].status)]
            /\ hist' = [hist EXCEPT ![h].built = Append(@, loc[h].status)]
            /\ loc' = [loc EXCEPT ![h].idx = @ + 1, ![h].slice = <<>>, ![h].status = NoStatus,
                                  ![h].res = NoResult]
            /\ pc' = [pc EXCEPT ![h] = IF loc[h].idx = NumServers THEN "s_write" ELSE "s_topic"]
            /\ lastComplete' = IF loc[h].idx = NumServers
                               THEN [lastComplete EXCEPT !["status"] = serverResponseW'.Var]
                               ELSE lastComplete
    /\ UNCHANGED <<now, playTimeLeaderboardW, w, lastStart, budget>>
    /\ UNCHANGED <<topicVars, reqVars>>

\* Lines 70 and 93: the store of the appended slice; then the next server.
StatusCbAppend(h) ==
    /\ pc[h] = "s_append"
    /\ serverResponseW' = [serverResponseW EXCEPT !.Var = Append(loc[h].slice, loc[h].status)]
    /\ hist' = [hist EXCEPT ![h].built = Append(@, loc[h].status)]
    /\ loc' = [loc EXCEPT ![h].idx = @ + 1, ![h].slice = <<>>, ![h].status = NoStatus, ![h].res = NoResult]
    /\ pc' = [pc EXCEPT ![h] = IF loc[h].idx = NumServers THEN "s_write" ELSE "s_topic"]
    /\ lastComplete' = IF loc[h].idx = NumServers
                       THEN [lastComplete EXCEPT !["status"] = serverResponseW'.Var]
                       ELSE lastComplete
    /\ UNCHANGED <<now, playTimeLeaderboardW, w, lastStart, budget>>
    /\ UNCHANGED <<topicVars, reqVars>>

\* Line 97: WriteHeaderResponse(w, ResponseSuccess, serverResponseW.Var)
StatusCbRespond(h) ==
    /\ pc[h] = "s_write"
    /\ w' = [w EXCEPT ![h] = @ \o WriteHeaderResponse(ResponseSuccess, serverResponseW.Var)]
    /\ loc' = [loc EXCEPT ![h] = [NoLocals EXCEPT !.op = "StatusCb"]]
    /\ hist' = [hist EXCEPT ![h] = NoHist]
    /\ pc' = [pc EXCEPT ![h] = "done"]
    /\ UNCHANGED <<now, serverResponseW, playTimeLeaderboardW, lastStart, lastComplete, budget>>
    /\ UNCHANGED <<topicVars, reqVars>>

\* PlayerLeaderboardCb without a job parameter (or with an empty one),
\* line 131: the cache test.  This path reads no header.
PlayerLeaderboardCbEnter(h) ==
    /\ pc[h] \in {"idle", "done"}
    /\ budget.requests < MaxRequests
    /\ LET stale == ShouldRefreshResponse(playTimeLeaderboardW)
       IN  /\ pc' = [pc EXCEPT ![h] = IF stale THEN "l_stamp" ELSE "l_write"]
           /\ hist' = EnterHist(h, "PlayerLeaderboardCb", stale)
    /\ loc' = [loc EXCEPT ![h] = [NoLocals EXCEPT !.op = "PlayerLeaderboardCb"]]
    /\ w' = [w EXCEPT ![h] = <<>>]
    /\ request' = [request EXCEPT ![h] = NoRequest]
    /\ budget' = [budget EXCEPT !.requests = @ + 1]
    /\ UNCHANGED <<now, serverResponseW, playTimeLeaderboardW, lastStart, lastComplete>>
    /\ UNCHANGED <<topicVars, secret>>

\* Line 132: playTimeLeaderboardW.LastAccess = time.Now()
PlayerLeaderboardCbSetLastAccess(h) ==
    /\ pc[h] = "l_stamp"
    /\ playTimeLeaderboardW' = [playTimeLeaderboardW EXCEPT !.LastAccess = now]
    /\ lastStart' = [lastStart EXCEPT !["top"] = now]
    /\ pc' = [pc EXCEPT ![h] = "l_clear"]
    /\ UNCHANGED <<now, serverResponseW, loc, w, hist, lastComplete, budget>>
    /\ UNCHANGED <<topicVars, reqVars>>

\* Line 133: playTimeLeaderboardW.Var = nil
PlayerLeaderboardCbClearVar(h) ==
    /\ pc[h] = "l_clear"
    /\ playTimeLeaderboardW' = [playTimeLeaderboardW EXCEPT !.Var = <<>>]
    /\ pc' = [pc EXCEPT ![h] = "l_query"]
    /\ UNCHANGED <<now, serverResponseW, loc, w, hist, lastStart, lastComplete, budget>>
    /\ UNCHANGED <<topicVars, reqVars>>

\* Line 135: data := db.GetTopMinutes("Living"); the table holds one of
\* LivingRows at that moment.
PlayerLeaderboardCbQuery(h) ==
    /\ pc[h] = "l_query"
    /\ \E rows \in LivingRows :
          /\ loc' = [loc EXCEPT ![h].data = rows, ![h].idx = 1]
          /\ pc' = [pc EXCEPT ![h] = IF rows = <<>> THEN "l_write" ELSE "l_read"]
          /\ lastComplete' = IF rows = <<>>
                             THEN [lastComplete EXCEPT !["top"] = playTimeLeaderboardW.Var]
                             ELSE lastComplete
    /\ hist' = [hist EXCEPT ![h].calls = Append(@, Call("GetTopMinutes", "", J_Living, 0))]
    /\ UNCHANGED <<now, serverResponseW, playTimeLeaderboardW, w, lastStart, budget>>
    /\ UNCHANGED <<topicVars, reqVars>>

\* Lines 137-138: the read of playTimeLeaderboardW.Var for append
PlayerLeaderboardCbRead(h) ==
    /\ pc[h] = "l_read"
    /\ loc' = [loc EXCEPT ![h].slice = playTimeLeaderboardW.Var]
    /\ pc' = [pc EXCEPT ![h] = "l_append"]
    /\ UNCHANGED <<now, serverResponseW, playTimeLeaderboardW, w, hist, lastStart,
                   lastComplete, budget>>
    /\ UNCHANGED <<topicVars, reqVars>>

\* Lines 137-138: the store of the appended slice; then the next row.
PlayerLeaderboardCbAppend(h) ==
    /\ pc[h] = "l_append"
    /\ LET v == loc[h].data[loc[h].idx]
           row == [ByondKey |-> v.ByondKey, Minutes |-> v.Minutes]
       IN  /\ playTimeLeaderboardW' = [playTimeLeaderboardW EXCEPT !.Var = Append(loc[h].slice, row)]
           /\ hist' = [hist EXCEPT ![h].built = Append(@, row)]
    /\ loc' = [loc EXCEPT ![h].idx = @ + 1, ![h].slice = <<>>]
    /\ pc' = [pc EXCEPT ![h] = IF loc[h].idx = Len(loc[h].data) THEN "l_write" ELSE "l_read"]
    /\ lastComplete' = IF loc[h].idx = Len(loc[h].data)
                       THEN [lastComplete EXCEPT !["top"] = playTimeLeaderboardW'.Var]
                       ELSE lastComplete
    /\ UNCHANGED <<now, serverResponseW, w, lastStart, budget>>
    /\ UNCHANGED <<topicVars, reqVars>>

\* Line 142: WriteHeaderResponse(w, ResponseSuccess, playTimeLeaderboardW.Var)
PlayerLeaderboardCbRespond(h) ==
    /\ pc[h] = "l_write"
    /\ w' = [w EXCEPT ![h] = @ \o WriteHeaderResponse(ResponseSuccess, playTimeLeaderboardW.Var)]
    /\ loc' = [loc EXCEPT ![h] = [NoLocals EXCEPT !.op = "PlayerLeaderboardCb"]]
    /\ hist' = [hist EXCEPT ![h] = NoHist]
    /\ pc' = [pc EXCEPT ![h] = "done"]
    /\ UNCHANGED <<now, serverResponseW, playTimeLeaderboardW, lastStart, lastComplete, budget>>
    /\ UNCHANGED <<topicVars, reqVars>>

\* The wall clock advances.
Tick ==
    /\ budget.ticks < MaxTicks
    /\ \E d \in TickSteps : now' = now + d
    /\ budget' = [budget EXCEPT !.ticks = @ + 1]
    /\ UNCHANGED <<serverResponseW, playTimeLeaderboardW, pc, loc, w, hist,
                   lastStart, lastComplete>>
    /\ UNCHANGED <<topicVars, reqVars>>

Next ==
    \/ \E h \in Handlers : StatusCbEnter(h)
    \/ \E h \in Handlers : StatusCbSetLastAccess(h)
    \/ \E h \in Handlers : StatusCbClearVar(h)
    \/ \E h \in Handlers : StatusCbTopic(h)
    \/ \E h \in Handlers : StatusCbAppend(h)
    \/ \E h \in Handlers : StatusCbRespond(h)
    \/ \E h \in Handlers : PlayerLeaderboardCbEnter(h)
    \/ \E h \in Handlers : PlayerLeaderboardCbSetLastAccess(h)
    \/ \E h \in Handlers : PlayerLeaderboardCbClearVar(h)
    \/ \E h \in Handlers : PlayerLeaderboardCbQuery(h)
    \/ \E h \in Handlers : PlayerLeaderboardCbRead(h)
    \/ \E h \in Handlers : PlayerLeaderboardCbAppend(h)
    \/ \E h \in Handlers : PlayerLeaderboardCbRespond(h)
    \/ Tick

(***************************************************************************)
(* package db, and the handlers behind the token                           *)
(***************************************************************************)

\* strings.ToLower, on ASCII
ToLower(s) == [i \in 1..Len(s) |-> IF s[i] >= 65 /\ s[i] <= 90 THEN s[i] + 32 ELSE s[i]]

\* url.Values.Has
Has(u, key) == \E i \in 1..Len(u) : u[i].key = key

\* http.Header.Get("token"): "" when the header is absent
HeaderGet(token) == IF token.present THEN token.value ELSE ""

\* The rows of a table in the order of their id
RECURSIVE RowsById(_)
RowsById(rows) ==
    IF rows = {} THEN <<>>
    ELSE LET first == CHOOSE r \in rows : \A q \in rows : r.ID <= q.ID
         IN  <<first>> \o RowsById(rows \ {first})

\* db.GetPlayer: the row whose lower-cased ckey is the lower-cased
\* argument; Scan fails when there is none.
GetPlayer(table, ckey) ==
    LET found == {r \in table : ToLower(r.Ckey) = ToLower(ckey)}
    IN  IF found = {} THEN [player |-> NoPlayer, success |-> FALSE]
        ELSE [player |-> CHOOSE r \in found : TRUE, success |-> TRUE]

\* db.GetBanByID
GetBanByID(table, id) ==
    LET found == {r \in table : r.ID = id}
    IN  IF found = {} THEN [ban |-> NoBan, success |-> FALSE]
        ELSE [ban |-> CHOOSE r \in found : TRUE, success |-> TRUE]

\* db.GetBan: every ban of the ckey, an empty list when there is none
GetBan(table, ckey) ==
    [ban |-> RowsById({r \in table : ToLower(r.BannedKey) = ToLower(ckey)}), success |-> TRUE]

\* Confidential: the token header equals the configured secret.
Confidential(req, sec) == HeaderGet(req.token) = sec

\* A request arrives at a handler behind the token, with one of the given
\* tokens and query strings.
GatedEnter(h, op, queries, first) ==
    /\ pc[h] \in {"idle", "done"}
    /\ budget.requests < MaxRequests
    /\ \E t \in Tokens : \E q \in queries :
          request' = [request EXCEPT ![h] = [token |-> t, query |-> q]]
    /\ loc' = [loc EXCEPT ![h] = [NoLocals EXCEPT !.op = op]]
    /\ hist' = [hist EXCEPT ![h] = NoHist]
    /\ w' = [w EXCEPT ![h] = <<>>]
    /\ pc' = [pc EXCEPT ![h] = first]
    /\ budget' = [budget EXCEPT !.requests = @ + 1]
    /\ UNCHANGED <<now, serverResponseW, playTimeLeaderboardW, lastStart, lastComplete>>
    /\ UNCHANGED <<topicVars, secret>>

\* if !Confidential(w, r) { return }: the bad-auth envelope and the end of
\* the handler, or on to the next step.
ConfidentialStep(h, at, next) ==
    /\ pc[h] = at
    /\ IF Confidential(request[h], secret)
       THEN /\ pc' = [pc EXCEPT ![h] = next]
            /\ UNCHANGED w
       ELSE /\ pc' = [pc EXCEPT ![h] = "done"]
            /\ w' = [w EXCEPT ![h] = @ \o WriteHeaderResponse(ResponseBadAuth, <<0>>)]
    /\ UNCHANGED <<now, serverResponseW, playTimeLeaderboardW, loc, hist, lastStart, lastComplete, budget>>
    /\ UNCHANGED <<topicVars, reqVars>>

\* PlayerCb: a request arrives.
PlayerCbEnter(h) == GatedEnter(h, "PlayerCb", PlayerQueries, "p_auth")

\* Lines 101-103
PlayerCbConfidential(h) == ConfidentialStep(h, "p_auth", "p_query")

\* Lines 105-112: the lookup and the envelope.
PlayerCbQuery(h) ==
    /\ pc[h] = "p_query"
    /\ \E table \in PlayerTables :
          LET ckey == Get(ParseQuery(request[h].query), K_ckey)
              got == GetPlayer(table, ckey)
          IN  /\ hist' = [hist EXCEPT ![h].calls = Append(@, Call("GetPlayer", "", ckey, 0))]
              /\ w' = [w EXCEPT ![h] = @ \o
                         IF got.success
                         THEN WriteHeaderResponse(ResponseSuccess, got.player)
                         ELSE WriteHeaderResponseCustom(ResponseFail, "Player not found", <<0>>)]
    /\ pc' = [pc EXCEPT ![h] = "done"]
    /\ UNCHANGED <<now, serverResponseW, playTimeLeaderboardW, loc, lastStart, lastComplete, budget>>
    /\ UNCHANGED <<topicVars, reqVars>>

\* PlayerLeaderboardCb with a non-empty job parameter, lines 116-117.
PlayerLeaderboardCbJobEnter(h) == GatedEnter(h, "PlayerLeaderboardCb", JobQueries, "j_auth")

\* Lines 118-120
PlayerLeaderboardCbJobConfidential(h) == ConfidentialStep(h, "j_auth", "j_query")

\* The job branch answering from the cache instead of the database
PlayerLeaderboardCbJobQuery_cached(h) ==
    /\ pc[h] = "j_query"
    /\ w' = [w EXCEPT ![h] = @ \o WriteHeaderResponse(ResponseSuccess, playTimeLeaderboardW.Var)]
    /\ pc' = [pc EXCEPT ![h] = "done"]
    /\ UNCHANGED <<now, serverResponseW, playTimeLeaderboardW, loc, hist, lastStart, lastComplete, budget>>
    /\ UNCHANGED <<topicVars, reqVars>>

\* Lines 121-128: the lookup for the job, the copy of its rows, the
\* envelope.  The table holds one of LivingRows for that job.
PlayerLeaderboardCbJobQuery(h) ==
    /\ pc[h] = "j_query"
    /\ \E data \in LivingRows :
          LET job == Get(ParseQuery(request[h].query), K_job)
              playTimes == [i \in 1..Len(data) |->
                              [ByondKey |-> data[i].ByondKey, Minutes |-> data[i].Minutes]]
          IN  /\ hist' = [hist EXCEPT ![h].calls = Append(@, Call("GetTopMinutes", "", job, 0))]
              /\ w' = [w EXCEPT ![h] = @ \o WriteHeaderResponse(ResponseSuccess, playTimes)]
    /\ pc' = [pc EXCEPT ![h] = "done"]
    /\ UNCHANGED <<now, serverResponseW, playTimeLeaderboardW, loc, lastStart, lastComplete, budget>>
    /\ UNCHANGED <<topicVars, reqVars>>

\* BanCheckCb: a request arrives.
BanCheckCbEnter(h) == GatedEnter(h, "BanCheckCb", BanQueries, "b_auth")

\* Lines 146-148
BanCheckCbConfidential(h) == ConfidentialStep(h, "b_auth", "b_query")

\* Lines 150-171: the lookup by id, else the lookup by ckey, else nothing.
BanCheckCbQuery(h) ==
    /\ pc[h] = "b_query"
    /\ \E table \in BanTables :
          LET q == ParseQuery(request[h].query)
              banID == url_to_int(q, K_id)
              ckey == Get(q, K_ckey)
              got == IF Has(q, K_id) THEN GetBanByID(table, banID) ELSE GetBan(table, ckey)
              status == IF got.success THEN ResponseSuccess ELSE ResponseFail
          IN  IF Has(q, K_id)
              THEN /\ hist' = [hist EXCEPT ![h].calls = Append(@, Call("GetBanByID", "", <<>>, banID))]
                   /\ w' = [w EXCEPT ![h] = @ \o WriteHeaderResponse(status, got.ban)]
              ELSE IF Has(q, K_ckey)
              THEN /\ hist' = [hist EXCEPT ![h].calls = Append(@, Call("GetBan", "", ckey, 0))]
                   /\ w' = [w EXCEPT ![h] = @ \o WriteHeaderResponse(status, got.ban)]
              ELSE UNCHANGED <<hist, w>>
    /\ pc' = [pc EXCEPT ![h] = "done"]
    /\ UNCHANGED <<now, serverResponseW, playTimeLeaderboardW, loc, lastStart, lastComplete, budget>>
    /\ UNCHANGED <<topicVars, reqVars>>

\* The handler that serves when requests come one at a time
Serving == {h \in Handlers : \A g \in Handlers : h <= g}

\* The four v1 handlers serving requests one after the other.
NextRequest ==
    \/ \E h \in Serving : StatusCbEnter(h)
    \/ \E h \in Serving : StatusCbSetLastAccess(h)
    \/ \E h \in Serving : StatusCbClearVar(h)
    \/ \E h \in Serving : StatusCbTopic(h)
    \/ \E h \in Serving : StatusCbAppend(h)
    \/ \E h \in Serving : StatusCbRespond(h)
    \/ \E h \in Serving : PlayerLeaderboardCbEnter(h)
    \/ \E h \in Serving : PlayerLeaderboardCbSetLastAccess(h)
    \/ \E h \in Serving : PlayerLeaderboardCbClearVar(h)
    \/ \E h \in Serving : PlayerLeaderboardCbQuery(h)
    \/ \E h \in Serving : PlayerLeaderboardCbRead(h)
    \/ \E h \in Serving : PlayerLeaderboardCbAppend(h)
    \/ \E h \in Serving : PlayerLeaderboardCbRespond(h)
    \/ \E h \in Serving : PlayerLeaderboardCbJobEnter(h)
    \/ \E h \in Serving : PlayerLeaderboardCbJobConfidential(h)
    \/ \E h \in Serving : PlayerLeaderboardCbJobQuery(h)
    \/ \E h \in Serving : PlayerCbEnter(h)
    \/ \E h \in Serving : PlayerCbConfidential(h)
    \/ \E h \in Serving : PlayerCbQuery(h)
    \/ \E h \in Serving : BanCheckCbEnter(h)
    \/ \E h \in Serving : BanCheckCbConfidential(h)
    \/ \E h \in Serving : BanCheckCbQuery(h)
    \/ Tick

(***************************************************************************)
(* byond.Topic step by step                                                *)
(***************************************************************************)

\* the longest request payload tried
MaxDataLen == 123
\* the most deliveries a response arrives in
MaxChunks == 2

\* "?status"
StatusQuery == <<63, 115, 116, 97, 116, 117, 115>>

\* The request payloads tried: "?status" and runs of 'a' of several lengths.
Datas == {StatusQuery} \cup {Fill(n, 97) : n \in {0, 1, MaxDataLen - 2, MaxDataLen - 1, MaxDataLen}}

\* "players=7&hub=1"
ShortPayload == <<112, 108, 97, 121, 101, 114, 115, 61, 55, 38, 104, 117, 98, 61, 49>>

\* "players=2147483648": a count one above the largest int32
WidePayload == <<112, 108, 97, 121, 101, 114, 115, 61, 50, 49, 52, 55, 52, 56, 51, 54, 52, 56>>

\* The response frames a remote sends.
Frames ==
    { Frame(<<TopicTypeString>> \o ShortPayload),
      Frame(<<TopicTypeString>> \o WidePayload),
      NumberFrame,
      Frame(<<TopicTypeString, 97, 61>>),
      Frame(<<TopicTypeString, 97>>),
      Frame(<<TopicTypeNull>>),
      Frame(<<>>) }

\* The ways of cutting s into at most k non-empty deliveries.
RECURSIVE Splits(_, _)
Splits(s, k) ==
    IF s = <<>> THEN {<<>>}
    ELSE IF k <= 1 THEN {<<s>>}
    ELSE {<<s>>} \cup
         UNION { { <<SubSeq(s, 1, i)>> \o r : r \in Splits(SubSeq(s, i + 1, Len(s)), k - 1) } :
                 i \in 1..(Len(s) - 1) }

\* The bytes of a sequence of deliveries.
RECURSIVE Flatten(_)
Flatten(chunks) == IF chunks = <<>> THEN <<>> ELSE Head(chunks) \o Flatten(Tail(chunks))

\* What the remote does: refuses, or accepts, sends a prefix of a frame in
\* some deliveries and then closes or stays silent.
RemoteInputs ==
    { [dialOK |-> FALSE, frame |-> <<>>, chunks |-> <<>>, closes |-> TRUE] } \cup
    UNION { UNION { { [dialOK |-> TRUE, frame |-> f, chunks |-> c, closes |-> k] :
                      c \in Splits(SubSeq(f, 1, n), MaxChunks), k \in BOOLEAN } :
                    n \in 0..Len(f) } : f \in Frames }

NoConn == [open |-> FALSE, inbound |-> <<>>]

TopicIdle ==
    /\ tpc = "idle"
    /\ input = [data |-> <<>>, dialOK |-> FALSE, frame |-> <<>>, chunks |-> <<>>, closes |-> TRUE]
    /\ conn = NoConn
    /\ packetData = <<>>
    /\ written = <<>>
    /\ responseHeaderData = <<>>
    /\ responseData = <<>>
    /\ nread = <<>>
    /\ result = NoResult

\* Topic is called with a payload, against some remote.
TopicCalled ==
    /\ tpc = "build"
    /\ \E d \in Datas : \E r \in RemoteInputs :
          input = [data |-> d, dialOK |-> r.dialOK, frame |-> r.frame, chunks |-> r.chunks,
                   closes |-> r.closes]
    /\ conn = NoConn
    /\ packetData = <<>>
    /\ written = <<>>
    /\ responseHeaderData = <<>>
    /\ responseData = <<>>
    /\ nread = <<>>
    /\ result = NoResult

\* Lines 73-79
TopicBuildPacket ==
    /\ tpc = "build"
    /\ packetData' = PacketData(input.data)
    /\ tpc' = "dial"
    /\ UNCHANGED <<input, conn, written, responseHeaderData, responseData, nread, result>>
    /\ UNCHANGED <<cacheVars, reqVars>>

\* Topic with the test of lines 82-84 missing: it goes on to write and read
\* after a failed dial
TopicDial_unchecked ==
    /\ tpc = "dial"
    /\ conn' = [open |-> input.dialOK, inbound |-> input.chunks]
    /\ tpc' = "write"
    /\ UNCHANGED <<input, packetData, written, responseHeaderData, responseData, nread, result>>
    /\ UNCHANGED <<cacheVars, reqVars>>

\* Lines 81-84
TopicDial ==
    /\ tpc = "dial"
    /\ IF input.dialOK
       THEN /\ conn' = [open |-> TRUE, inbound |-> input.chunks]
            /\ tpc' = "write"
            /\ UNCHANGED result
       ELSE /\ result' = DialFailure
            /\ tpc' = "done"
            /\ UNCHANGED conn
    /\ UNCHANGED <<input, packetData, written, responseHeaderData, responseData, nread>>
    /\ UNCHANGED <<cacheVars, reqVars>>

\* Line 86
TopicWrite ==
    /\ tpc = "write"
    /\ written' = written \o packetData
    /\ tpc' = "readHeader"
    /\ UNCHANGED <<input, conn, packetData, responseHeaderData, responseData, nread, result>>
    /\ UNCHANGED <<cacheVars, reqVars>>

\* Lines 88-89
TopicReadHeader ==
    /\ tpc = "readHeader"
    /\ ~ReadBlocks(conn.inbound, input.closes, BYOND_PACKET_HEADER_SIZE)
    /\ responseHeaderData' = ReadInto(conn.inbound, BYOND_PACKET_HEADER_SIZE)
    /\ nread' = Append(nread, ReadCount(conn.inbound, BYOND_PACKET_HEADER_SIZE))
    /\ conn' = [conn EXCEPT !.inbound = ReadRest(conn.inbound, BYOND_PACKET_HEADER_SIZE)]
    /\ tpc' = "readBody"
    /\ UNCHANGED <<input, packetData, written, responseData, result>>
    /\ UNCHANGED <<cacheVars, reqVars>>

\* Lines 90-92
TopicReadBody ==
    /\ tpc = "readBody"
    /\ LET DataSize == Uint16(SubSeq(responseHeaderData, 3, 4))
       IN  /\ ~ReadBlocks(conn.inbound, input.closes, DataSize)
           /\ responseData' = ReadInto(conn.inbound, DataSize)
           /\ nread' = Append(nread, ReadCount(conn.inbound, DataSize))
           /\ conn' = [conn EXCEPT !.inbound = ReadRest(conn.inbound, DataSize)]
    /\ tpc' = "classify"
    /\ UNCHANGED <<input, packetData, written, responseHeaderData, result>>
    /\ UNCHANGED <<cacheVars, reqVars>>

\* Lines 94-103
TopicReturn ==
    /\ tpc = "classify"
    /\ result' = Classify(responseData)
    /\ tpc' = "done"
    /\ UNCHANGED <<input, conn, packetData, written, responseHeaderData, responseData, nread>>
    /\ UNCHANGED <<cacheVars, reqVars>>

TopicNext ==
    \/ TopicBuildPacket
    \/ TopicDial
    \/ TopicWrite
    \/ TopicReadHeader
    \/ TopicReadBody
    \/ TopicReturn

(***************************************************************************)
(* Specifications                                                          *)
(***************************************************************************)

\* LoadConfig: the configuration file holds ConfiguredSecret.
ConfigLoaded ==
    /\ secret = ConfiguredSecret
    /\ request = [h \in Handlers |-> NoRequest]

\* LoadConfig: the configuration file holds any of Secrets.
ConfigChosen ==
    /\ secret \in Secrets
    /\ request = [h \in Handlers |-> NoRequest]

Init == CacheInit /\ TopicIdle /\ ConfigLoaded

\* The server: handlers, caches and the clock.
Spec == Init /\ [][Next]_vars

InitTopic == CacheInit /\ TopicCalled /\ ConfigLoaded

\* One call of Topic.
SpecTopic == InitTopic /\ [][TopicNext]_vars

\* One call of Topic that is not suspended for ever while it can take a
\* step: the goroutine is scheduled, and a read that can return returns.
SpecTopicFair == InitTopic /\ [][TopicNext]_vars /\ WF_vars(TopicNext)

InitRequest == CacheInit /\ TopicIdle /\ ConfigChosen

\* The server under any configured secret, its requests served one at a
\* time, the endpoints behind the token included.
SpecRequest == InitRequest /\ [][NextRequest]_vars

(***************************************************************************)
(* Properties                                                              *)
(***************************************************************************)

\* C1: when a refresh of the server-status cache runs to completion with no
\* other refresh of that cache in progress, the cached list has one record
\* per configured server, and the i-th record carries the name of the i-th
\* configured server.
C1_RefreshYieldsAllServers ==
    [][\A h \in Handlers :
          (pc[h] = "s_append" /\ pc'[h] = "s_write" /\ ~hist[h].overlapped)
          => /\ Len(serverResponseW'.Var) = NumServers
             /\ \A i \in 1..NumServers : serverResponseW'.Var[i].Name = Servers[i].Name]_vars

\* A refresh nobody overlapped has finished; one server was offline, one online.
C1_Witness ==
    \E h \in Handlers :
        /\ pc[h] = "s_write" /\ hist[h].refreshed /\ ~hist[h].overlapped
        /\ hist[h].built = serverResponseW.Var
        /\ Len(serverResponseW.Var) = NumServers
        /\ \E i, j \in 1..NumServers :
              serverResponseW.Var[i].ServerStatus = 0 /\ serverResponseW.Var[j].ServerStatus = 1

\* C2: a reader that observes a cache while a refresh of it is in progress
\* is served the complete previous value, never an emptied or partly built
\* list.
C2_ReaderServedPreviousValue ==
    [][\A h \in Handlers :
          /\ (/\ pc[h] = "s_write" /\ pc'[h] = "done" /\ ~hist[h].refreshed
              /\ \E g \in Handlers \ {h} : InRefresh(g, "StatusCb"))
             => w'[h] = WriteHeaderResponseCustom(ResponseSuccess, "success", lastComplete["status"])
          /\ (/\ pc[h] = "l_write" /\ pc'[h] = "done" /\ ~hist[h].refreshed
              /\ \E g \in Handlers \ {h} : InRefresh(g, "PlayerLeaderboardCb"))
             => w'[h] = WriteHeaderResponseCustom(ResponseSuccess, "success", lastComplete["top"])]_vars

\* C3: when two requests both found the status cache stale and both ran a
\* refresh, the cached value after both have finished is the complete
\* result of one of the two; and the cache never holds more records than
\* there are configured servers.
C3_LastWriteWins ==
    /\ Len(serverResponseW.Var) <= NumServers
    /\ \A h, g \in Handlers :
          (/\ h # g
           /\ pc[h] = "s_write" /\ hist[h].refreshed
           /\ pc[g] = "s_write" /\ hist[g].refreshed)
          => serverResponseW.Var \in {hist[h].built, hist[g].built}

\* C4: a cache is stale exactly when at least Cooldown has elapsed since
\* LastAccess; it is stale before its first refresh, and not stale right
\* after a refresh has set LastAccess.
C4_StaleExactlyAfterCooldown ==
    /\ [](/\ ShouldRefreshResponse(serverResponseW)
             <=> (now - serverResponseW.LastAccess >= StatusCooldown)
          /\ ShouldRefreshResponse(playTimeLeaderboardW)
             <=> (now - playTimeLeaderboardW.LastAccess >= LeaderboardCooldown)
          /\ lastStart["status"] = NoTime => ShouldRefreshResponse(serverResponseW)
          /\ lastStart["top"] = NoTime => ShouldRefreshResponse(playTimeLeaderboardW))
    /\ [][/\ (\E h \in Handlers : pc[h] = "s_stamp" /\ pc'[h] = "s_clear")
             => ~ShouldRefreshResponse(serverResponseW)'
          /\ (\E h \in Handlers : pc[h] = "l_stamp" /\ pc'[h] = "l_clear")
             => ~ShouldRefreshResponse(playTimeLeaderboardW)']_vars

\* The status cache has been refreshed, and exactly its cooldown has elapsed.
C4_Witness ==
    /\ lastStart["status"] # NoTime
    /\ now - serverResponseW.LastAccess = StatusCooldown
    /\ ShouldRefreshResponse(serverResponseW)

\* C5: a refresh sets LastAccess before its first Topic call or database
\* lookup, so a request arriving after a refresh has started and before the
\* cooldown has elapsed finds the cache not stale and recomputes nothing.
C5_LastAccessSetBeforeRecompute ==
    /\ [](\A h \in Handlers :
            /\ pc[h] \in {"s_clear", "s_topic", "s_append"}
               => (lastStart["status"] # NoTime /\ serverResponseW.LastAccess = lastStart["status"])
            /\ pc[h] \in {"l_clear", "l_query", "l_read", "l_append"}
               => (lastStart["top"] # NoTime /\ playTimeLeaderboardW.LastAccess = lastStart["top"]))
    /\ [][\A g \in Handlers :
            /\ (/\ pc[g] \in {"idle", "done"} /\ pc'[g] \in {"s_stamp", "s_write"}
                /\ lastStart["status"] # NoTime /\ now - lastStart["status"] < StatusCooldown)
               => pc'[g] = "s_write"
            /\ (/\ pc[g] \in {"idle", "done"} /\ pc'[g] \in {"l_stamp", "l_write"}
                /\ lastStart["top"] # NoTime /\ now - lastStart["top"] < LeaderboardCooldown)
               => pc'[g] = "l_write"]_vars

\* While one handler is calling Topic in a refresh, another request has
\* arrived, found the cache not stale and is about to answer from it.
C5_Witness ==
    \E h, g \in Handlers :
        /\ h # g
        /\ pc[h] = "s_append" /\ loc[h].idx = 1
        /\ pc[g] = "s_write" /\ ~hist[g].refreshed /\ loc[g].op = "StatusCb"

\* C6: any two recomputations of a cache's value start at least Cooldown
\* apart.
C6_RecomputationsCooldownApart ==
    [][/\ (\E h \in Handlers : pc[h] = "s_stamp" /\ pc'[h] = "s_clear")
          => (lastStart["status"] = NoTime \/ now - lastStart["status"] >= StatusCooldown)
       /\ (\E h \in Handlers : pc[h] = "l_stamp" /\ pc'[h] = "l_clear")
          => (lastStart["top"] = NoTime \/ now - lastStart["top"] >= LeaderboardCooldown)]_vars

\* C7: the record built for a server is online exactly when Topic returned
\* no error and the string tag; otherwise it is offline, carries the
\* descriptor's name, error message and connection info and nothing else;
\* and the refresh goes on to the next configured server.
C7_RecordMatchesTopicResult ==
    /\ [](\A h \in Handlers :
            pc[h] = "s_append" =>
               LET st == loc[h].status
                   res == loc[h].res
                   server == Servers[loc[h].idx]
               IN  /\ st.ServerStatus \in {0, 1}
                   /\ st.ServerStatus = 1 <=> (res.err = "nil" /\ res.dataType = TopicTypeString)
                   /\ st.Name = server.Name
                   /\ st.ErrorMessage = server.ErrorMessage
                   /\ st.ConnectionInfo = server.ConnectionAddress
                   /\ st.ServerStatus = 0 =>
                         /\ st.RoundID = 0 /\ st.Hub = FALSE /\ st.Players = 0 /\ st.Admins = 0
                         /\ st.Map = <<>> /\ st.SecurityLevel = <<>> /\ st.RoundDuration = 0
                         /\ st.GameState = 0 /\ st.TimeDilation = 0 /\ st.TimeDilationAvg = 0
                         /\ st.TimeDilationSlow = 0 /\ st.TimeDilationFast = 0
                         /\ st.ShuttleMode = <<>> /\ st.ShuttleTime = 0)
    /\ [][\A h \in Handlers :
            (pc[h] = "s_append" /\ pc'[h] # "s_append")
            => /\ loc'[h].idx = loc[h].idx + 1
               /\ pc'[h] = IF loc[h].idx < NumServers THEN "s_topic" ELSE "s_write"
               /\ Len(serverResponseW'.Var) > 0
               /\ serverResponseW'.Var[Len(serverResponseW'.Var)] = loc[h].status]_vars

\* The first server's record is offline, the refresh has gone on, and the
\* second server has answered without error but with the null tag.
C7_Witness ==
    \E h \in Handlers :
        /\ pc[h] = "s_append" /\ loc[h].idx = 2
        /\ serverResponseW.Var # <<>>
        /\ serverResponseW.Var[1].ServerStatus = 0
        /\ loc[h].res.err = "nil" /\ loc[h].res.dataType = TopicTypeNull

\* C8: when the response is short (fewer than 4 header bytes, or fewer body
\* bytes than the header declares, are delivered before the read returns),
\* the status record built from Topic's result is the offline record, with
\* no field taken from the incomplete data.
C8_ShortFrameIsOffline ==
    (/\ tpc = "done" /\ input.dialOK
     /\ (nread[1] < BYOND_PACKET_HEADER_SIZE \/ nread[2] < Uint16(SubSeq(input.frame, 3, 4))))
    => StatusRecord(Servers[1], result) = BaseStatus(Servers[1])

\* C9: however the bytes of a response frame are cut into deliveries,
\* Topic returns what it returns when the frame arrives in one delivery.
C9_SplitDeliveryReassembled ==
    (tpc = "done" /\ input.dialOK /\ Flatten(input.chunks) = input.frame)
    => result = Topic(TRUE, <<input.frame>>)

\* A reference parser of request frames: the payload, or <<-1>> for a
\* frame that is not 00 83, a 2-byte big-endian length L, 5 zero bytes,
\* L-6 payload bytes and a NUL.
ReferenceParse(frame) ==
    IF /\ Len(frame) >= 10
       /\ SubSeq(frame, 1, 2) = <<0, 131>>
       /\ Len(frame) = 4 + Uint16(SubSeq(frame, 3, 4))
       /\ SubSeq(frame, 5, 9) = <<0, 0, 0, 0, 0>>
       /\ frame[Len(frame)] = 0
    THEN SubSeq(frame, 10, Len(frame) - 1)
    ELSE <<-1>>

\* C10: the request frame is 00 83, the 2-byte length len(payload)+6, five
\* zero bytes, the payload and a NUL, and a reference parser recovers the
\* payload from it, for every payload length.
C10_RequestFrameRoundTrip ==
    tpc # "build"
    => /\ packetData = <<0, 131, (Len(input.data) + 6) \div 256, (Len(input.data) + 6) % 256>>
                       \o <<0, 0, 0, 0, 0>> \o input.data \o <<0>>
       /\ ReferenceParse(packetData) = input.data

\* C11: when establishing the connection fails, Topic returns the
\* connection error at once, with the null tag and no payload: the dial
\* step leads straight to the return, nothing has been written to any
\* connection, no read has been made and no connection is open.
C11_DialFailureReturnsAtOnce ==
    [][(tpc = "dial" /\ ~input.dialOK)
       => /\ tpc' = "done"
          /\ result' = DialFailure
          /\ result'.err = "dial"
          /\ written' = <<>>
          /\ nread' = <<>>
          /\ responseHeaderData' = <<>>
          /\ responseData' = <<>>
          /\ ~conn'.open]_vars

\* C11 happens: a call against a remote that refuses has returned, its
\* request frame built and never sent.
C11_Witness ==
    /\ tpc = "done"
    /\ ~input.dialOK
    /\ packetData # <<>>
    /\ written = <<>>
    /\ result.err = "dial"

\* C12: when Topic returns after the remote has sent a whole response
\* frame, in whatever deliveries, for a response whose declared body
\* length is 0, 1 or 2 the result is the null tag with no
\* payload and no error; for a declared length above 2 the tag is the first
\* body byte and, when that tag is not null, the payload is the body
\* without its first byte.
C12_TagAndPayloadByDeclaredLength ==
    (tpc = "done" /\ input.dialOK /\ Flatten(input.chunks) = input.frame)
    => LET declared == Uint16(SubSeq(input.frame, 3, 4))
           body == SubSeq(input.frame, BYOND_PACKET_HEADER_SIZE + 1, Len(input.frame))
       IN  /\ declared <= 2
              => result = [err |-> "nil", dataType |-> TopicTypeNull, data |-> <<>>]
           /\ declared > 2
              => /\ result.err = "nil"
                 /\ result.dataType = body[1]
                 /\ result.dataType # TopicTypeNull => result.data = Tail(body)

\* C13: a request to the player endpoint or the ban endpoint whose token
\* header is missing or differs from the configured secret ends with the
\* bad-auth envelope (status 3) as its whole response and without any
\* database lookup, whatever the configured secret is.
C13_BadTokenGetsBadAuthOnly ==
    \A h \in Handlers :
        (/\ pc[h] = "done"
         /\ loc[h].op \in {"PlayerCb", "BanCheckCb"}
         /\ (~request[h].token.present \/ request[h].token.value # secret))
        => /\ w[h] = WriteHeaderResponse(ResponseBadAuth, <<0>>)
           /\ w[h][1].Status = ResponseBadAuth
           /\ hist[h].calls = <<>>

\* The job parameter of the request handler h serves
JobOf(h) == Get(ParseQuery(request[h].query), K_job)

\* No step of a leaderboard request that names a job touches the
\* leaderboard cache, and a leaderboard request that names none looks the
\* database up exactly when it found the cache stale, and is otherwise
\* answered with the cached value.
LeaderboardFrame(h) ==
    /\ (loc[h].op = "PlayerLeaderboardCb" /\ pc[h] \in {"j_auth", "j_query"})
       => UNCHANGED playTimeLeaderboardW
    /\ (pc[h] = "l_write" /\ pc'[h] = "done")
       => /\ JobOf(h) = <<>>
          /\ hist[h].calls =
                IF hist[h].refreshed THEN <<Call("GetTopMinutes", "", J_Living, 0)>> ELSE <<>>
          /\ w'[h] = WriteHeaderResponse(ResponseSuccess, playTimeLeaderboardW.Var)

MaxInt32Digits == <<50, 49, 52, 55, 52, 56, 51, 54, 52, 55>>
MinInt32Digits == <<50, 49, 52, 55, 52, 56, 51, 54, 52, 56>>

\* The text is a decimal integer with an optional sign whose value an
\* int32 holds.
ParsesAsInt32(s) ==
    LET neg == s # <<>> /\ s[1] = 45
        signed == s # <<>> /\ (s[1] = 45 \/ s[1] = 43)
        d == IF signed THEN Tail(s) ELSE s
        m == StripZeros(d)
        limit == IF neg THEN MinInt32Digits ELSE MaxInt32Digits
    IN  /\ d # <<>>
        /\ \A i \in 1..Len(d) : IsDigit(d[i])
        /\ Len(m) <= Len(limit)
        /\ Len(m) = Len(limit) => ~LexGreater(m, limit)

\* C15: when Topic has returned a string payload, in the record built from
\* it every integer field whose key is missing or whose value does not
\* parse as a 32-bit integer is 0, every string field whose key is missing
\* is empty, and the record is marked online.
C15_UnparseableIntegerIsZero ==
    (tpc = "done" /\ result.err = "nil" /\ result.dataType = TopicTypeString)
    => LET u == ParseQuery(result.data)
           rec == StatusRecord(Servers[1], result)
           ints == { <<K_round_id, rec.RoundID>>, <<K_players, rec.Players>>,
                     <<K_admins, rec.Admins>>, <<K_round_duration, rec.RoundDuration>>,
                     <<K_gamestate, rec.GameState>>, <<K_shuttle_time, rec.ShuttleTime>> }
           strs == { <<K_map_name, rec.Map>>, <<K_security_level, rec.SecurityLevel>>,
                     <<K_shuttle_mode, rec.ShuttleMode>> }
       IN  /\ rec.ServerStatus = 1
           /\ \A f \in ints : ~ParsesAsInt32(Get(u, f[1])) => f[2] = 0
           /\ \A f \in strs : ~Has(u, f[1]) => f[2] = <<>>

\* C16: every call of Topic eventually returns, also against a remote that
\* accepts the connection and then sends nothing, or fewer bytes than a
\* read waits for, and keeps the connection open.
C16_TopicEventuallyReturns == <>(tpc = "done")

\* The Topic calls of a refresh that has queried the first n servers
TopicCalls(n) == [i \in 1..n |-> Call("Topic", Servers[i].Address, <<>>, 0)]

\* C17: within one refresh of the server-status cache the Topic calls made
\* so far are one per server, in configuration order, each made only after
\* the record of the server before it has been appended; when the loop is
\* over every configured server has been called exactly once, failed calls
\* included, and a handler that does not refresh calls none.
C17_TopicOncePerServerInOrder ==
    \A h \in Handlers :
        /\ pc[h] = "s_topic"
           => /\ hist[h].calls = TopicCalls(loc[h].idx - 1)
              /\ Len(hist[h].built) = loc[h].idx - 1
        /\ pc[h] = "s_append"
           => /\ hist[h].calls = TopicCalls(loc[h].idx)
              /\ Len(hist[h].built) = loc[h].idx - 1
        /\ pc[h] = "s_write"
           => /\ hist[h].calls = IF hist[h].refreshed THEN TopicCalls(NumServers) ELSE <<>>
              /\ Len(hist[h].built) = Len(hist[h].calls)

\* C17 happens: a refresh is over in which the call for the first server
\* failed and the call for the second was answered, each made once.
C17_Witness ==
    \E h \in Handlers :
        /\ pc[h] = "s_write"
        /\ hist[h].refreshed
        /\ hist[h].calls = TopicCalls(NumServers)
        /\ hist[h].built[1].ServerStatus = 0
        /\ hist[h].built[NumServers].ServerStatus = 1

\* C18: when Topic has returned, the connection it opened is closed.
C18_ConnectionClosedOnReturn == tpc = "done" => ~conn.open

\* C19: when a v1 request handler has returned, it has written exactly one
\* response envelope, whatever the query parameters and the token were.
C19_OneEnvelopePerRequest ==
    \A h \in Handlers :
        (pc[h] = "done" /\ loc[h].op \in {"StatusCb", "PlayerCb", "PlayerLeaderboardCb", "BanCheckCb"})
        => Len(w[h]) = 1

=============================================================================
